---- MODULE Spec2Model ----
(***************************************************************************)
(* Scotty beam tracing: the state codec and the beam evolution function of *)
(* scotty/fun_evolution_3D.py, launch_beam / find_entry_point of           *)
(* scotty/launch.py, and the dataset immediate_analysis hands to           *)
(* further_analysis in scotty/analysis.py.                                 *)
(*                                                                         *)
(* Real numbers are modelled by integers, complex numbers by pairs         *)
(* <<re, im>> of integers, 3x3 arrays by functions [0..2 -> [0..2 -> _]]   *)
(* with the 0-based indices of the source.  A function call either returns *)
(* a value or raises: Return(v) / Raise(e).                                *)
(*                                                                         *)
(* launch_beam is modelled twice: its control flow on terms (which         *)
(* functions were applied to what, SpecLaunch) and the arrays it computes  *)
(* on exact complex rationals (SpecValues).  The search length of          *)
(* find_entry_point is computed on an integer grid (SpecSearch).           *)
(***************************************************************************)
EXTENDS Integers, Sequences, FiniteSets, TLC

\* ------------------------------------------------------------------ bounds
\* Largest magnitude of the perturbation added to one slot of a state vector.
MaxVal == 1

\* ------------------------------------------------------- values and errors
Return(v) == [ok |-> TRUE, exc |-> "", val |-> v]
Raise(e) == [ok |-> FALSE, exc |-> e, val |-> <<>>]

Idx == 0..2
Slots == 0..17

\* complex numbers of numpy's complex128, as <<re, im>>
Cx(re, im) == <<re, im>>
np_real(z) == z[1]
np_imag(z) == z[2]
CAdd(a, b) == <<a[1] + b[1], a[2] + b[2]>>
CNeg(a) == <<-a[1], -a[2]>>
CSub(a, b) == CAdd(a, CNeg(b))
CMul(a, b) == <<a[1] * b[1] - a[2] * b[2], a[1] * b[2] + a[2] * b[1]>>
CScale(h, a) == <<h * a[1], h * a[2]>>

\* np.zeros([3, 3], dtype="complex128")
np_zeros == [i \in Idx |-> [j \in Idx |-> Cx(0, 0)]]
\* a real 3x3 array seen as a complex one (numpy's type promotion in matmul)
AsComplex(M) == [i \in Idx |-> [j \in Idx |-> Cx(M[i][j], 0)]]
np_matmul(A, B) ==
    [i \in Idx |-> [j \in Idx |->
        CAdd(CAdd(CMul(A[i][0], B[0][j]), CMul(A[i][1], B[1][j])),
             CMul(A[i][2], B[2][j]))]]
np_transpose(A) == [i \in Idx |-> [j \in Idx |-> A[j][i]]]
MatNeg(A) == [i \in Idx |-> [j \in Idx |-> CNeg(A[i][j])]]
MatSub(A, B) == [i \in Idx |-> [j \in Idx |-> CSub(A[i][j], B[i][j])]]
MatAdd(A, B) == [i \in Idx |-> [j \in Idx |-> CAdd(A[i][j], B[i][j])]]
MatScale(h, A) == [i \in Idx |-> [j \in Idx |-> CScale(h, A[i][j])]]
IsSymmetric(A) == A = np_transpose(A)

\* np.array(*args): numpy takes the array-like as ONE positional argument
\* (object, then dtype); a call with more positional arguments than its
\* signature has raises TypeError before anything is built.
np_array(args) ==
    IF Len(args) > 2 THEN Raise("TypeError") ELSE Return(args[1])

\* ------------------------------------------------ fun_evolution_3D: codec
pack_beam_parameters_3D(q_X, q_Y, q_Z, K_X, K_Y, K_Z, Psi) ==
    np_array(<<q_X, q_Y, q_Z, K_X, K_Y, K_Z,
               np_real(Psi[0][0]), np_real(Psi[1][1]), np_real(Psi[2][2]),
               np_real(Psi[0][1]), np_real(Psi[0][2]), np_real(Psi[1][2]),
               np_imag(Psi[0][0]), np_imag(Psi[1][1]), np_imag(Psi[2][2]),
               np_imag(Psi[0][1]), np_imag(Psi[0][2]), np_imag(Psi[1][2])>>)

\* The assignments of lines 58-67 in their order, each one reading the array
\* as the previous ones left it.
unpack_Psi(bp) ==
    LET P0 == np_zeros
        P1 == [P0 EXCEPT ![0][0] = Cx(bp[6], bp[12])]
        P2 == [P1 EXCEPT ![1][1] = Cx(bp[7], bp[13])]
        P3 == [P2 EXCEPT ![2][2] = Cx(bp[8], bp[14])]
        P4 == [P3 EXCEPT ![0][1] = Cx(bp[9], bp[15])]
        P5 == [P4 EXCEPT ![0][2] = Cx(bp[10], bp[16])]
        P6 == [P5 EXCEPT ![1][2] = Cx(bp[11], bp[17])]
        P7 == [P6 EXCEPT ![0][1] = P6[1][0]]
        P8 == [P7 EXCEPT ![2][0] = P7[0][2]]
        P9 == [P8 EXCEPT ![2][1] = P8[1][2]]
    IN  P9

unpack_beam_parameters_3D(bp) ==
    [q_X |-> bp[0], q_Y |-> bp[1], q_Z |-> bp[2],
     K_X |-> bp[3], K_Y |-> bp[4], K_Z |-> bp[5],
     Psi |-> unpack_Psi(bp)]

\* ------------------------------------- fun_evolution_3D: the ODE right-hand side
\* hessians_3D(dH): the three second-partial tensors of the provider's output
\* (scotty.hamiltonian_3D is an external collaborator; its output is an input
\* of the model).
hessians_3D(dH) ==
    [grad_grad_H |-> AsComplex(dH.Hpp),
     gradK_grad_H |-> AsComplex(dH.Hkp),
     gradK_gradK_H |-> AsComplex(dH.Hkk)]

\* line 94
grad_gradK_H_NoTranspose(gradK_grad_H) == gradK_grad_H
grad_gradK_H(gradK_grad_H) == np_transpose(gradK_grad_H)

\* lines 103-108
d_Psi_d_tau(Psi, grad_grad_H, gradK_grad_H, gradK_gradK_H) ==
    MatSub(MatSub(MatSub(MatNeg(grad_grad_H),
                         np_matmul(Psi, gradK_grad_H)),
                  np_matmul(grad_gradK_H(gradK_grad_H), Psi)),
           np_matmul(np_matmul(Psi, gradK_gradK_H), Psi))

\* line 91 is in no try block: what hamiltonian.derivatives raises ends the
\* evaluator as it is
propagated_Wrapped(exc) == Raise("RuntimeError")
propagated(exc) == Raise(exc)

\* One call of beam_evolution_fun_3D(tau, beam_parameters, hamiltonian), with
\* dH what hamiltonian.derivatives does at the decoded point: it raises
\* (dH.raises) or returns its partial derivatives.  The record holds the
\* function's outcome (out) and the locals it had computed when it ended.
beam_evolution_fun_3D(tau, beam_parameters, dH) ==
    LET u == unpack_beam_parameters_3D(beam_parameters)
        at == <<u.q_X, u.q_Y, u.q_Z, u.K_X, u.K_Y, u.K_Z>>
    IN  IF dH.raises
        THEN [stage |-> "provider_raised", out |-> propagated(dH.exc),
              provider_calls |-> <<at>>, Psi |-> u.Psi,
              d_Psi_d_tau |-> np_zeros]
        ELSE LET H == hessians_3D(dH)
                 dPsi == d_Psi_d_tau(u.Psi, H.grad_grad_H, H.gradK_grad_H,
                                     H.gradK_gradK_H)
                 out == pack_beam_parameters_3D(
                            dH.dH_dKx, dH.dH_dKy, dH.dH_dKz,
                            -dH.dH_dX, -dH.dH_dY, -dH.dH_dZ, dPsi)
             IN  [stage |-> IF out.ok THEN "returned" ELSE "pack_raised",
                  out |-> out, provider_calls |-> <<at>>, Psi |-> u.Psi,
                  d_Psi_d_tau |-> dPsi]

\* unpack_beam_parameters_3D(pack_beam_parameters_3D(...)): an exception of the
\* inner call propagates.
unpack_of_pack(p) ==
    LET packed == pack_beam_parameters_3D(p.q_X, p.q_Y, p.q_Z,
                                          p.K_X, p.K_Y, p.K_Z, p.Psi)
    IN  IF packed.ok THEN Return(unpack_beam_parameters_3D(packed.val))
        ELSE packed

\* ------------------------------------------------ launch: find_entry_point
\* The ray parameter tau is measured on a grid whose unit is boundary_adjust;
\* tau = 1 (the end of the sampled range) is grid position TauMax and two
\* consecutive samples of np.linspace are two grid units apart, so that the
\* field has a value between two samples that the sampling does not see.
\* N_SAMPLES is the number of samples (100 in the source).
N_SAMPLES == 3
boundary_adjust == 1
poloidal_flux_enter == 1

TauMax == 2 * (N_SAMPLES - 1)
\* the positions on the ray where the model knows the field: the sampled
\* range and one nudge past its end
Taus == 0..(TauMax + boundary_adjust)

RaiseMsg(e, msg) == [ok |-> FALSE, exc |-> e, val |-> msg]

Called(log, fn) == \E i \in 1..Len(log) : log[i] = fn
Count(log, fn) == Cardinality({i \in 1..Len(log) : log[i] = fn})

RECURSIVE SortedSeq(_)
SortedSeq(S) ==
    IF S = {} THEN <<>>
    ELSE LET m == CHOOSE x \in S : \A y \in S : x <= y
         IN  <<m>> \o SortedSeq(S \ {m})

\* tau = np.linspace(0, 1, 100)
np_linspace == [i \in 0..(N_SAMPLES - 1) |-> 2 * i]

\* beam_line(tau), as cartesian_to_cylindrical gives it: the point of the ray
\* is named by its ray parameter
beam_line(tau) == tau

\* field.poloidal_flux at the point beam_line(tau): the field provider's values
\* along the ray are an input of the model
poloidal_flux_at(field, tau) == field[tau]

poloidal_flux_boundary_along_line(field, tau) ==
    poloidal_flux_at(field, beam_line(tau)) - poloidal_flux_enter

\* CubicSpline(tau, samples, extrapolate=False).roots(): the interpolant goes
\* through the samples, so it has a root at every sample that is zero and
\* inside every interval whose two samples differ in sign; scipy returns the
\* roots in ascending order of tau.
CubicSpline_roots(samples) ==
    SortedSeq({np_linspace[i] : i \in {k \in DOMAIN samples : samples[k] = 0}}
        \cup {np_linspace[i] + 1 :
                i \in {k \in DOMAIN samples :
                         /\ k + 1 \in DOMAIN samples
                         /\ samples[k] * samples[k + 1] < 0}})

\* minimize_scalar(f): a local minimum of f and f's value there
MinimizeOutcomes(field) ==
    { [x |-> p, fun |-> poloidal_flux_boundary_along_line(field, p)] :
        p \in {t \in Taus : \A u \in {t - 1, t + 1} \cap Taus :
                 field[t] <= field[u]} }

\* root_scalar(f, x0, x1) (the secant method): it reports no convergence, or
\* converges to a tau within its tolerance (about one boundary_adjust) of a
\* place where f is zero or changes sign; which one, the seed does not
\* guarantee.
NearRoot(field, p) ==
    LET f(t) == poloidal_flux_boundary_along_line(field, t)
    IN  \/ f(p) = 0
        \/ \E u \in {p - 1, p + 1} \cap Taus : f(p) * f(u) <= 0

NoBoundary == [converged |-> FALSE, flag |-> "convergence error", root |-> 0]

RootScalarOutcomes(field) ==
    {NoBoundary, [NoBoundary EXCEPT !.flag = "value error"]} \cup
    { [converged |-> TRUE, flag |-> "converged", root |-> p] :
        p \in {t \in 0..TauMax : NearRoot(field, t)} }

FindEntryEnvs(field) ==
    { [minimum |-> m, boundary |-> b] :
        m \in MinimizeOutcomes(field), b \in RootScalarOutcomes(field) }

\* line 482
no_roots_Never(spline_roots) == FALSE
no_roots(spline_roots) == Len(spline_roots) = 0

\* line 495: x0=spline_roots[0]
seed_Last(spline_roots) == spline_roots[Len(spline_roots)]
seed(spline_roots) == spline_roots[1]

\* line 497
not_converged_Never(boundary) == FALSE
not_converged(boundary) == ~boundary.converged

\* lines 504-507
nudged(field, boundary_tau) ==
    IF poloidal_flux_at(field, beam_line(boundary_tau)) > poloidal_flux_enter
    THEN boundary_tau + boundary_adjust
    ELSE boundary_tau

\* One call of find_entry_point on a ray along which the field provider has
\* the values `field`; env is what minimize_scalar and root_scalar do.  The
\* record holds the outcome (out: the point returned, or the exception), the
\* library calls made in their order (log) and the locals.
find_entry_point(field, env) ==
    LET samples == [i \in DOMAIN np_linspace |->
                      poloidal_flux_boundary_along_line(field, np_linspace[i])]
        spline_roots == CubicSpline_roots(samples)
        log0 == <<"CubicSpline", "spline.roots">>
        unset == [spline_roots |-> spline_roots, x0 |-> -1, root |-> -1,
                  boundary |-> [NoBoundary EXCEPT !.flag = "unset"]]
    IN  IF no_roots(spline_roots)
        THEN [out |-> RaiseMsg("RuntimeError",
                        [text |-> "Beam does not hit plasma",
                         closest |-> beam_line(env.minimum.x),
                         distance |-> env.minimum.fun,
                         flag |-> ""]),
              log |-> log0 \o <<"minimize_scalar">>,
              locals |-> unset]
        ELSE IF Len(spline_roots) = 0
        THEN [out |-> Raise("IndexError"), log |-> log0, locals |-> unset]
        ELSE LET x0 == seed(spline_roots)
                 boundary == env.boundary
                 log1 == log0 \o <<"root_scalar">>
                 locals == [spline_roots |-> spline_roots, x0 |-> x0,
                            root |-> boundary.root, boundary |-> boundary]
             IN  IF not_converged(boundary)
                 THEN [out |-> RaiseMsg("RuntimeError",
                                 [text |-> "Could not find plasma boundary",
                                  closest |-> -1, distance |-> 0,
                                  flag |-> boundary.flag]),
                       log |-> log1, locals |-> [locals EXCEPT !.root = -1]]
                 ELSE [out |-> Return(beam_line(nudged(field, boundary.root))),
                       log |-> log1, locals |-> locals]

\* ----------------------------------------------------- launch: launch_beam
\* Python values of the flags are written as strings: "True", "False" and
\* "None" are the objects True, False and None.  Computed arrays are terms:
\* the sequence of the functions applied, outermost first.

\* lines 117-121
Psi_BC_flag_invalid_Never(Psi_BC_flag) == FALSE
Psi_BC_flag_invalid(Psi_BC_flag) ==
    /\ Psi_BC_flag # "None"
    /\ Psi_BC_flag # "continuous"
    /\ Psi_BC_flag # "discontinuous"

\* lines 103-124: the flag after normalisation, the warnings emitted, or the
\* exception
normalise_Psi_BC_flag_NoLegacy(Psi_BC_flag) ==
    IF Psi_BC_flag_invalid(Psi_BC_flag)
    THEN [raised |-> TRUE, flag |-> Psi_BC_flag, warnings |-> <<>>,
          value |-> Psi_BC_flag,
          expected |-> <<"None", "continuous", "discontinuous">>]
    ELSE [raised |-> FALSE, flag |-> Psi_BC_flag, warnings |-> <<>>,
          value |-> "", expected |-> <<>>]
normalise_Psi_BC_flag(Psi_BC_flag) ==
    IF Psi_BC_flag = "True"
    THEN [raised |-> FALSE, flag |-> "continuous",
          warnings |-> <<"DeprecationWarning">>, value |-> "", expected |-> <<>>]
    ELSE IF Psi_BC_flag = "False"
    THEN [raised |-> FALSE, flag |-> "None",
          warnings |-> <<"DeprecationWarning">>, value |-> "", expected |-> <<>>]
    ELSE IF Psi_BC_flag_invalid(Psi_BC_flag)
    THEN [raised |-> TRUE, flag |-> Psi_BC_flag, warnings |-> <<>>,
          value |-> Psi_BC_flag,
          expected |-> <<"None", "continuous", "discontinuous">>]
    ELSE [raised |-> FALSE, flag |-> Psi_BC_flag, warnings |-> <<>>,
          value |-> "", expected |-> <<>>]

NoMsg == [text |-> "", value |-> "", expected |-> <<>>]

\* lines 131-155: K_R_launch, K_zeta_launch and K_Z_launch are assigned in the
\* two branches only
K_launch_bound(flag_coordinate_system) ==
    flag_coordinate_system \in {"cylindrical", "cartesian"}

\* lines 199-279: Psi_3D_lab_launch_cartersian and Psi_3D_lab_launch
Psi_3D_lab_launch_cartersian(flag_coordinate_system) ==
    IF flag_coordinate_system = "cartesian"
    THEN <<"rotate", "set_row_col_2_grad_H", "make_array_3x3",
           "Psi_w_beam_launch_cartersian">>
    ELSE <<"rotate", "make_array_3x3", "Psi_w_beam_launch_cartersian">>

Psi_3D_lab_launch(flag_coordinate_system) ==
    IF flag_coordinate_system = "cylindrical"
    THEN <<"find_Psi_3D_lab">>
             \o Psi_3D_lab_launch_cartersian(flag_coordinate_system)
    ELSE Psi_3D_lab_launch_cartersian(flag_coordinate_system)

\* lines 335-347 and 350-356
Psi_3D_lab_entry_cartersian ==
    <<"rotate", "make_array_3x3", "find_inverse_2D", "vacuum_propagate",
      "find_inverse_2D", "Psi_w_beam_launch_cartersian">>
Psi_3D_lab_entry == <<"find_Psi_3D_lab">> \o Psi_3D_lab_entry_cartersian

\* lines 325-333
K_lab_entry ==
    <<"find_K_lab", "find_K_lab_Cartesian", "K_launch">>

\* lines 362-395: K_initial and Psi_3D_lab_initial
entry_policy_NoElse(Psi_BC_flag) ==
    IF Psi_BC_flag = "discontinuous"
    THEN [calls |-> <<"apply_discontinuous_BC">>,
          K_initial |-> <<"apply_discontinuous_BC">> \o K_lab_entry,
          Psi_3D_lab_initial |-> <<"apply_discontinuous_BC">> \o Psi_3D_lab_entry]
    ELSE [calls |-> <<"apply_continuous_BC">>,
          K_initial |-> <<"apply_continuous_BC">> \o K_lab_entry,
          Psi_3D_lab_initial |-> <<"apply_continuous_BC">> \o Psi_3D_lab_entry]
entry_policy(Psi_BC_flag) ==
    IF Psi_BC_flag = "discontinuous"
    THEN [calls |-> <<"apply_discontinuous_BC">>,
          K_initial |-> <<"apply_discontinuous_BC">> \o K_lab_entry,
          Psi_3D_lab_initial |-> <<"apply_discontinuous_BC">> \o Psi_3D_lab_entry]
    ELSE IF Psi_BC_flag = "continuous"
    THEN [calls |-> <<"apply_continuous_BC">>,
          K_initial |-> <<"apply_continuous_BC">> \o K_lab_entry,
          Psi_3D_lab_initial |-> <<"apply_continuous_BC">> \o Psi_3D_lab_entry]
    ELSE [calls |-> <<>>,
          K_initial |-> <<"list">> \o K_lab_entry,
          Psi_3D_lab_initial |-> Psi_3D_lab_entry]

\* line 291
no_vacuum_propagation_Never(vacuum_propagation_flag) == FALSE
no_vacuum_propagation(vacuum_propagation_flag) == ~vacuum_propagation_flag

\* One call of launch_beam with the flags a, on a ray along which the field
\* provider has the values `field`; env is what the collaborators do
\* (dH_raises: hamiltonian.derivatives raises; find_entry: the solvers of
\* find_entry_point).  The record holds the outcome (out: the returned bundle
\* or the exception), the warnings emitted, the calls made in their order
\* (log) and, when find_entry_point was called, its record (entry).
launch_beam(a, field, env) ==
    LET bc == normalise_Psi_BC_flag(a.Psi_BC_flag)
        coord == a.flag_coordinate_system
        no_entry == [out |-> Raise("not called"), log |-> <<>>,
                     locals |-> [spline_roots |-> <<>>, x0 |-> -1, root |-> -1,
                                 boundary |-> [NoBoundary EXCEPT
                                                 !.flag = "unset"]]]
        log1 == <<"np.deg2rad", "np.deg2rad", "angular_frequency_to_wavenumber">>
        log2 == log1 \o <<"launch_K", "np.array", "rotation_matrix",
                          "make_array_3x3">>
        log3 == log2
                \o (IF coord = "cartesian" THEN <<"hamiltonian.derivatives", "rotate">>
                    ELSE <<>>)
                \o (IF coord = "cylindrical"
                    THEN <<"rotate", "find_Psi_3D_lab", "rotate">> ELSE <<>>)
        log4 == log3 \o <<"find_inverse_2D", "find_entry_point">>
    IN  IF bc.raised
        THEN [out |-> RaiseMsg("ValueError",
                        [text |-> "Unexpected value for Psi_BC_flag",
                         value |-> bc.value, expected |-> bc.expected]),
              warnings |-> bc.warnings, log |-> <<>>, entry |-> no_entry,
              Psi_BC_flag |-> bc.flag]
        ELSE IF ~K_launch_bound(coord)
        THEN \* line 156 reads K_R_launch, which no branch has assigned
             [out |-> RaiseMsg("UnboundLocalError",
                        [text |-> "local variable referenced before assignment",
                         value |-> "K_R_launch", expected |-> <<>>]),
              warnings |-> bc.warnings, log |-> log1, entry |-> no_entry,
              Psi_BC_flag |-> bc.flag]
        ELSE IF coord = "cartesian" /\ env.dH_raises
        THEN [out |-> RaiseMsg("DomainError", NoMsg),
              warnings |-> bc.warnings,
              log |-> log2 \o <<"hamiltonian.derivatives">>,
              entry |-> no_entry, Psi_BC_flag |-> bc.flag]
        ELSE IF no_vacuum_propagation(a.vacuum_propagation_flag)
        THEN [out |-> Return(<< <<"list", "K_launch">>,
                                <<"launch_position">>,
                                <<"np.array", "K_launch">>,
                                Psi_3D_lab_launch(coord),
                                Psi_3D_lab_launch(coord),
                                <<"None">>,
                                <<"np.full_like", "nan">>,
                                <<"None">> >>),
              warnings |-> bc.warnings, log |-> log3, entry |-> no_entry,
              Psi_BC_flag |-> bc.flag]
        ELSE LET entry == find_entry_point(field, env.find_entry)
             IN  IF ~entry.out.ok
                 THEN [out |-> entry.out, warnings |-> bc.warnings,
                       log |-> log4, entry |-> entry, Psi_BC_flag |-> bc.flag]
                 ELSE LET policy == entry_policy(bc.flag)
                      IN  [out |-> Return(<< <<"np.array">> \o policy.K_initial,
                                             <<"entry_position">>,
                                             <<"np.array", "K_launch">>,
                                             policy.Psi_3D_lab_initial,
                                             Psi_3D_lab_launch(coord),
                                             Psi_3D_lab_entry,
                                             Psi_3D_lab_entry_cartersian,
                                             <<"distance", "launch_position",
                                               "entry_position">> >>),
                           warnings |-> bc.warnings,
                           log |-> log4 \o <<"np.sqrt", "find_K_lab_Cartesian",
                                             "cylindrical_to_cartesian",
                                             "find_K_lab", "find_inverse_2D",
                                             "make_array_3x3", "rotate",
                                             "find_Psi_3D_lab">>
                                        \o policy.calls,
                           entry |-> entry, Psi_BC_flag |-> bc.flag]

\* ------------------------------------------- launch: the values computed
\* The arithmetic of launch_beam on exact numbers.  A number is the complex
\* rational (re + i*im)/den in lowest terms with den > 0; an angle is given
\* by its cosine and sine, two rationals whose squares add up to 1.
Abs(x) == IF x < 0 THEN -x ELSE x

RECURSIVE gcd(_, _)
gcd(a, b) == IF b = 0 THEN a ELSE gcd(b, a % b)

lcm(a, b) == (a \div gcd(a, b)) * b

Q(re, im, den) ==
    LET g == gcd(gcd(Abs(re), Abs(im)), Abs(den))
        s == IF den < 0 THEN -1 ELSE 1
    IN  [re |-> (s * re) \div g, im |-> (s * im) \div g,
         den |-> (s * den) \div g]

QInt(n) == Q(n, 0, 1)
QZero == QInt(0)
QOne == QInt(1)

QAdd(a, b) ==
    LET l == lcm(a.den, b.den)
    IN  Q(a.re * (l \div a.den) + b.re * (l \div b.den),
          a.im * (l \div a.den) + b.im * (l \div b.den), l)
QNeg(a) == Q(-a.re, -a.im, a.den)
QMul(a, b) ==
    Q(a.re * b.re - a.im * b.im, a.re * b.im + a.im * b.re, a.den * b.den)
\* 1 / a for a # 0
QInv(a) == Q(a.re * a.den, -(a.im * a.den), a.re * a.re + a.im * a.im)
QDiv(a, b) == QMul(a, QInv(b))

\* An n x n array is a function on 0..n-1 of functions on 0..n-1.
RECURSIVE QSumTo(_, _)
QSumTo(f, k) == IF k < 0 THEN QZero ELSE QAdd(QSumTo(f, k - 1), f[k])

QMatMul(A, B) ==
    [i \in DOMAIN A |-> [j \in DOMAIN A |->
        QSumTo([k \in DOMAIN A |-> QMul(A[i][k], B[k][j])],
               Cardinality(DOMAIN A) - 1)]]
QTranspose(A) == [i \in DOMAIN A |-> [j \in DOMAIN A |-> A[j][i]]]
QMatAdd(A, B) == [i \in DOMAIN A |-> [j \in DOMAIN A |-> QAdd(A[i][j], B[i][j])]]
QMatScale(c, A) == [i \in DOMAIN A |-> [j \in DOMAIN A |-> QMul(c, A[i][j])]]
np_eye(n) ==
    [i \in 0..(n - 1) |-> [j \in 0..(n - 1) |-> IF i = j THEN QOne ELSE QZero]]

np_cos(angle) == angle.cos
np_sin(angle) == angle.sin
\* angle + np.pi / 2
plus_half_pi(angle) == [cos |-> QNeg(angle.sin), sin |-> angle.cos]
\* a - b
angle_minus(a, b) ==
    [cos |-> QAdd(QMul(a.cos, b.cos), QMul(a.sin, b.sin)),
     sin |-> QAdd(QMul(a.sin, b.cos), QNeg(QMul(a.cos, b.sin)))]

\* np.sqrt of a rational that is the square of a rational
isqrt(n) == CHOOSE r \in 0..n : r * r = n
IsSquare(n) == \E r \in 0..n : r * r = n
np_sqrt(q) == Q(isqrt(q.re), 0, isqrt(q.den))

\* lines 160-162
Psi_w_beam_diagonal_WidthNotSquared(wavenumber_K0, launch_beam_curvature, launch_beam_width) ==
    QAdd(QInt(wavenumber_K0 * launch_beam_curvature),
         Q(0, 2, launch_beam_width))
Psi_w_beam_diagonal(wavenumber_K0, launch_beam_curvature, launch_beam_width) ==
    QAdd(QInt(wavenumber_K0 * launch_beam_curvature),
         Q(0, 2, launch_beam_width * launch_beam_width))

\* line 163
Psi_w_beam_launch_cartersian(diagonal) == QMatScale(diagonal, np_eye(2))

\* lines 166-172
rotation_matrix_pol(poloidal_rotation_angle) ==
    LET c == np_cos(poloidal_rotation_angle)
        s == np_sin(poloidal_rotation_angle)
    IN  (0 :> (0 :> c @@ 1 :> QZero @@ 2 :> s)) @@
        (1 :> (0 :> QZero @@ 1 :> QOne @@ 2 :> QZero)) @@
        (2 :> (0 :> QNeg(s) @@ 1 :> QZero @@ 2 :> c))

\* lines 174-180
rotation_matrix_tor_SignSlip(toroidal_launch_angle) ==
    LET c == np_cos(toroidal_launch_angle)
        s == np_sin(toroidal_launch_angle)
    IN  (0 :> (0 :> c @@ 1 :> s @@ 2 :> QZero)) @@
        (1 :> (0 :> s @@ 1 :> c @@ 2 :> QZero)) @@
        (2 :> (0 :> QZero @@ 1 :> QZero @@ 2 :> QOne))
rotation_matrix_tor(toroidal_launch_angle) ==
    LET c == np_cos(toroidal_launch_angle)
        s == np_sin(toroidal_launch_angle)
    IN  (0 :> (0 :> c @@ 1 :> s @@ 2 :> QZero)) @@
        (1 :> (0 :> QNeg(s) @@ 1 :> c @@ 2 :> QZero)) @@
        (2 :> (0 :> QZero @@ 1 :> QZero @@ 2 :> QOne))

\* lines 157 and 197
rotation_matrix(poloidal_launch_angle, toroidal_launch_angle) ==
    QMatMul(rotation_matrix_pol(plus_half_pi(poloidal_launch_angle)),
            rotation_matrix_tor(toroidal_launch_angle))

\* scotty.fun_general.make_array_3x3: the 2x2 array in the upper-left corner
\* of a 3x3 array of zeros
make_array_3x3(array_2x2) ==
    [i \in Idx |-> [j \in Idx |->
        IF i < 2 /\ j < 2 THEN array_2x2[i][j] ELSE QZero]]

\* scotty.fun_general.find_inverse_2D: the inverse of a 2x2 array
find_inverse_2D(matrix_2D) ==
    LET determinant ==
            QAdd(QMul(matrix_2D[0][0], matrix_2D[1][1]),
                 QNeg(QMul(matrix_2D[0][1], matrix_2D[1][0])))
    IN  (0 :> (0 :> QDiv(matrix_2D[1][1], determinant)
               @@ 1 :> QNeg(QDiv(matrix_2D[0][1], determinant)))) @@
        (1 :> (0 :> QNeg(QDiv(matrix_2D[1][0], determinant))
               @@ 1 :> QDiv(matrix_2D[0][0], determinant)))

\* lines 199 and 204-250: in the cartesian mode column 2 and then row 2 of
\* the embedded array are overwritten with grad_H
set_row_col_2(array_3x3, grad_H) ==
    [i \in Idx |-> [j \in Idx |->
        IF i = 2 THEN grad_H[j] ELSE IF j = 2 THEN grad_H[i]
        ELSE array_3x3[i][j]]]

Psi_3D_beam_launch_cartersian(flag_coordinate_system, Psi_w, grad_H) ==
    IF flag_coordinate_system = "cartesian"
    THEN set_row_col_2(make_array_3x3(Psi_w), grad_H)
    ELSE make_array_3x3(Psi_w)

\* lines 256-259, 263-266 and 344-347
rotated_to_lab(R, Psi_3D_beam) ==
    QMatMul(QTranspose(R), QMatMul(Psi_3D_beam, R))

\* lines 313-321
distance_from_launch_to_entry(launch_position, entry_position) ==
    LET sq(x) == x * x
    IN  np_sqrt(
          QAdd(QAdd(QInt(sq(launch_position[0]) + sq(entry_position[0])),
                    QNeg(QMul(QInt(2 * launch_position[0] * entry_position[0]),
                              np_cos(angle_minus(entry_position[1],
                                                 launch_position[1]))))),
               QInt(sq(launch_position[2] - entry_position[2]))))

\* lines 335-338
Psi_w_beam_inverse_entry_cartersian_TimesK0(distance, wavenumber_K0, inverse_launch) ==
    QMatAdd(QMatScale(QMul(distance, QInt(wavenumber_K0)), np_eye(2)),
            inverse_launch)
Psi_w_beam_inverse_entry_cartersian(distance, wavenumber_K0, inverse_launch) ==
    QMatAdd(QMatScale(QDiv(distance, QInt(wavenumber_K0)), np_eye(2)),
            inverse_launch)

NotComputed == <<"not computed">>

\* The arrays launch_beam computes at lines 129-347 for the arguments g (the
\* launch angles after np.deg2rad), with grad_H what hamiltonian.derivatives
\* returns at the launch point and entry_position what find_entry_point
\* returns.
launch_beam_values(g, grad_H, entry_position) ==
    LET R == rotation_matrix(g.poloidal_launch_angle, g.toroidal_launch_angle)
        Psi_w == Psi_w_beam_launch_cartersian(
                     Psi_w_beam_diagonal(g.wavenumber_K0,
                                         g.launch_beam_curvature,
                                         g.launch_beam_width))
        Psi_beam == Psi_3D_beam_launch_cartersian(g.flag_coordinate_system,
                                                  Psi_w, grad_H)
        launch == [rotation_matrix |-> R,
                   rotation_matrix_inverse |-> QTranspose(R),
                   Psi_w_beam_launch_cartersian |-> Psi_w,
                   Psi_3D_beam_launch_cartersian |-> Psi_beam,
                   Psi_3D_lab_launch_cartersian |-> rotated_to_lab(R, Psi_beam)]
        not_computed ==
            [distance_from_launch_to_entry |-> NotComputed,
             Psi_w_beam_inverse_launch_cartersian |-> NotComputed,
             Psi_w_beam_inverse_entry_cartersian |-> NotComputed,
             Psi_3D_beam_entry_cartersian |-> NotComputed,
             Psi_3D_lab_entry_cartersian |-> NotComputed]
    IN  IF no_vacuum_propagation(g.vacuum_propagation_flag)
        THEN [launch |-> launch, entry |-> not_computed,
              bundle_distance |-> <<"None">>]
        ELSE LET inverse_launch == find_inverse_2D(Psi_w)
                 distance == distance_from_launch_to_entry(g.launch_position,
                                                           entry_position)
                 inverse_entry ==
                     Psi_w_beam_inverse_entry_cartersian(
                         distance, g.wavenumber_K0, inverse_launch)
                 Psi_beam_entry == make_array_3x3(find_inverse_2D(inverse_entry))
             IN  [launch |-> launch,
                  entry |->
                    [distance_from_launch_to_entry |-> distance,
                     Psi_w_beam_inverse_launch_cartersian |-> inverse_launch,
                     Psi_w_beam_inverse_entry_cartersian |-> inverse_entry,
                     Psi_3D_beam_entry_cartersian |-> Psi_beam_entry,
                     Psi_3D_lab_entry_cartersian |->
                         rotated_to_lab(R, Psi_beam_entry)],
                  bundle_distance |-> distance]

\* ------------------------------------------------------ inputs of the codec
\* State vectors: the ramp 1..18 (every slot distinct) or zero, with one slot
\* perturbed.
VecSet ==
    { [i \in Slots |-> a * (i + 1) + (IF i = k THEN c ELSE 0)] :
        a \in 0..1, k \in Slots, c \in (-MaxVal)..MaxVal }

\* The (position, wavevector, symmetric Psi) whose 18-slot layout is v.
PartsOf(v) ==
    LET e(k) == Cx(v[k], v[k + 6])
    IN  [q_X |-> v[0], q_Y |-> v[1], q_Z |-> v[2],
         K_X |-> v[3], K_Y |-> v[4], K_Z |-> v[5],
         Psi |-> [i \in Idx |-> [j \in Idx |->
                    IF i = j THEN e(6 + i)
                    ELSE IF {i, j} = {0, 1} THEN e(9)
                    ELSE IF {i, j} = {0, 2} THEN e(10)
                    ELSE e(11)]]]

\* The batch (leading) shapes of the position, wavevector and Psi arguments
\* of pack: a scalar () or n_points values (n,).
BatchShapes == {<<>>, <<2>>, <<3>>}
ShapeArgs == [q : BatchShapes, K : BatchShapes, Psi : BatchShapes]
ScalarShapes == [q |-> <<>>, K |-> <<>>, Psi |-> <<>>]

MatZero == [i \in Idx |-> [j \in Idx |-> 0]]
MatEye == [i \in Idx |-> [j \in Idx |-> IF i = j THEN 1 ELSE 0]]
MatSymFull == [i \in Idx |-> [j \in Idx |-> i + j + 1]]
MatNonSym == [i \in Idx |-> [j \in Idx |-> 3 * i + j + 1]]
MatSet == {MatZero, MatEye, MatSymFull, MatNonSym}

GradSet == { [i \in 1..6 |-> s * i] : s \in {-1, 0, 1} }

NoProvider ==
    [raises |-> FALSE, exc |-> "", dH_dX |-> 0, dH_dY |-> 0, dH_dZ |-> 0,
     dH_dKx |-> 0, dH_dKy |-> 0, dH_dKz |-> 0,
     Hpp |-> MatZero, Hkp |-> MatZero, Hkk |-> MatZero]

\* What hamiltonian.derivatives may do: raise one of its exceptions, or return
\* first partials and second-partial tensors, symmetric or not.
ProviderOutputs ==
    { [NoProvider EXCEPT !.raises = TRUE, !.exc = e] :
        e \in {"DomainError", "ValueError"} } \cup
    { [raises |-> FALSE, exc |-> "", dH_dX |-> g[1], dH_dY |-> g[2], dH_dZ |-> g[3],
       dH_dKx |-> g[4], dH_dKy |-> g[5], dH_dKz |-> g[6],
       Hpp |-> a, Hkp |-> b, Hkk |-> c] :
        g \in GradSet, a \in MatSet, b \in MatSet, c \in MatSet }

\* ----------------------------------------------------- inputs of the launch
\* The boundary field along the ray: one flux value per grid position.
Fields == [Taus -> 0..2]

\* Fields that do not rise along the ray (outside, then inside).
LaunchFields ==
    {f \in Fields : \A t \in Taus : t + 1 \in Taus => f[t + 1] <= f[t]}

DefaultArgs ==
    [Psi_BC_flag |-> "True", flag_coordinate_system |-> "cylindrical",
     vacuum_propagation_flag |-> TRUE, vacuumLaunch_flag |-> TRUE]

LaunchArgs ==
    [Psi_BC_flag : {"True", "False", "None", "continuous", "discontinuous",
                    "bogus"},
     flag_coordinate_system : {"cylindrical", "cartesian", "spherical"},
     vacuum_propagation_flag : BOOLEAN,
     vacuumLaunch_flag : BOOLEAN]

LaunchBeamEnvs(field) ==
    { [dH_raises |-> r, find_entry |-> e] :
        r \in BOOLEAN, e \in FindEntryEnvs(field) }

\* ------------------------------------------- inputs of the launch values
MaxEuclid == 2
MaxLen == 4

\* wavenumber_K0, launch_beam_width and launch_beam_curvature
Wavenumbers == {1, 2}
Widths == {1, 2}
Curvatures == {-1, 0, 1}

\* Angles with a rational cosine and sine: the multiples of 90 degrees and
\* the angles of the Pythagorean triangles that Euclid's formula gives.
Triples ==
    { <<p[1] * p[1] - p[2] * p[2], 2 * p[1] * p[2], p[1] * p[1] + p[2] * p[2]>> :
        p \in {q \in (1..MaxEuclid) \X (0..MaxEuclid) : q[2] < q[1]} }

Angles ==
    UNION { { [cos |-> Q(sa * t[1], 0, t[3]), sin |-> Q(sb * t[2], 0, t[3])],
              [cos |-> Q(sa * t[2], 0, t[3]), sin |-> Q(sb * t[1], 0, t[3])] } :
            t \in Triples, sa \in {-1, 1}, sb \in {-1, 1} }

Angle0 == [cos |-> QOne, sin |-> QZero]
Angle90 == [cos |-> QZero, sin |-> QOne]
AngleOblique == [cos |-> Q(3, 0, 5), sin |-> Q(4, 0, 5)]

\* Positions (R, zeta, Z), indexed from 0 as in the source; an entry position
\* is one whose distance from the launch position is rational.
Position(r, zeta, z) == (0 :> r) @@ (1 :> zeta) @@ (2 :> z)

LaunchPositions == { Position(r, Angle0, 0) : r \in 1..MaxLen }

DistanceSquared(launch_position, entry_position) ==
    launch_position[0] * launch_position[0]
    + entry_position[0] * entry_position[0]
    - 2 * launch_position[0] * entry_position[0]
        * np_cos(angle_minus(entry_position[1], launch_position[1])).re
    + (launch_position[2] - entry_position[2])
        * (launch_position[2] - entry_position[2])

EntryPositions(launch_position) ==
    { e \in { Position(r, zeta, z) :
                r \in 1..MaxLen, zeta \in {Angle0, Angle90},
                z \in {0, MaxLen - 1} } :
        IsSquare(DistanceSquared(launch_position, e)) }

QVec(x, y, z) == (0 :> QInt(x)) @@ (1 :> QInt(y)) @@ (2 :> QInt(z))
NoGradH == QVec(0, 0, 0)
GradHs == {NoGradH, QVec(1, 2, -3)}

DefaultValueArgs ==
    [toroidal_launch_angle |-> AngleOblique,
     poloidal_launch_angle |-> Angle0,
     wavenumber_K0 |-> 1, launch_beam_curvature |-> 1, launch_beam_width |-> 1,
     flag_coordinate_system |-> "cylindrical",
     vacuum_propagation_flag |-> TRUE,
     launch_position |-> Position(MaxLen, Angle0, 0)]

ValueArgs ==
    { [DefaultValueArgs EXCEPT !.toroidal_launch_angle = t,
                               !.poloidal_launch_angle = p,
                               !.flag_coordinate_system = c] :
        t \in Angles, p \in Angles, c \in {"cylindrical", "cartesian"} }
    \cup
    { [DefaultValueArgs EXCEPT !.wavenumber_K0 = k,
                               !.launch_beam_curvature = u,
                               !.launch_beam_width = w,
                               !.flag_coordinate_system = c,
                               !.vacuum_propagation_flag = v,
                               !.launch_position = l] :
        k \in Wavenumbers, u \in Curvatures, w \in Widths,
        c \in {"cylindrical", "cartesian"}, v \in BOOLEAN,
        l \in LaunchPositions }

NoValueEnv ==
    [grad_H |-> NoGradH, entry_position |-> Position(MaxLen, Angle0, 0)]

ValueEnvs(g) ==
    { [grad_H |-> h, entry_position |-> e] :
        h \in (IF g.flag_coordinate_system = "cartesian"
               THEN GradHs ELSE {NoGradH}),
        e \in (IF g.vacuum_propagation_flag
               THEN EntryPositions(g.launch_position)
               ELSE {NoValueEnv.entry_position}) }

\* ---------------------------------- inputs of the search-length computation
\* Lengths are whole numbers of one unit; MaxCoord bounds every coordinate.
MaxCoord == 2

Max(S) == CHOOSE x \in S : \A y \in S : y <= x

Ranges(lo, hi) == { a..b : a \in lo..hi, b \in lo..hi } \ {{}}

\* lines 445-447: X_start, Y_start, Z_start = launch_position; the grid
\* arrays field.R_coord (R > 0) and field.Z_coord
SearchArgs ==
    [launch_position : (-MaxCoord..MaxCoord) \X (-MaxCoord..MaxCoord)
                         \X (-MaxCoord..MaxCoord),
     field : [R_coord : Ranges(1, MaxCoord),
              Z_coord : Ranges(-MaxCoord, MaxCoord)]]

DefaultSearchArgs ==
    [launch_position |-> <<0, 0, 0>>,
     field |-> [R_coord |-> {1}, Z_coord |-> {0}]]

NoLengths == [X_length |-> 0, Z_length |-> 0, max_length_squared |-> 0]

\* lines 445-448.  np.hypot(a, b) is the square root of a*a + b*b: the
\* model keeps its square.
search_lengths(launch_position, field) ==
    LET X_start == launch_position[1]
        Z_start == launch_position[3]
        X_length == Abs(X_start) + Max(field.R_coord)
        Z_length == Abs(Z_start) + Max(field.Z_coord)
    IN  [X_length |-> X_length, Z_length |-> Z_length,
         max_length_squared |-> X_length * X_length + Z_length * Z_length]

\* ------------------------------------------------------------- analysis.py
\* A dataset is the set of the names of its variables and coordinates, with
\* the values of the variables the model computes with, for a ray of one
\* point.

\* lines 137-165: the variables and the coordinates of xr.Dataset(...)
DataVariables ==
    {"B_R", "B_T", "B_Z", "B_magnitude", "K_R", "K_Z", "K_zeta_initial",
     "Psi_3D_lab_launch", "Psi_3D", "b_hat", "dH_dKR", "dH_dKZ", "dH_dKzeta",
     "dH_dR", "dH_dZ", "g_hat", "g_magnitude", "grad_bhat", "q_R", "q_Z",
     "q_zeta", "x_hat", "y_hat", "poloidal_flux"}
Coordinates == {"tau", "row", "col"}

\* lines 185-204
vacuum_only ==
    {"Psi_3D_lab_entry", "distance_from_launch_to_entry",
     "dpolflux_dR_debugging", "dpolflux_dZ_debugging", "epsilon_para",
     "epsilon_perp", "epsilon_g", "electron_density",
     "normalised_plasma_freqs", "normalised_gyro_freqs", "H", "H_other"}

\* lines 137-209
immediate_analysis(a, hats) ==
    [names |-> DataVariables \cup Coordinates
                 \cup (IF a.find_temperature_1D # "None"
                       THEN {"temperature"} ELSE {})
                 \cup (IF a.vacuumLaunch_flag THEN vacuum_only ELSE {}),
     q_zeta |-> a.q_zeta,
     x_hat |-> hats.x_hat, y_hat |-> hats.y_hat, g_hat |-> hats.g_hat]

\* lines 223-548: the variables further_analysis reads as attributes of df,
\* in the order of their first read (df.get("temperature") at line 553
\* returns None for a variable that is not there)
further_reads ==
    <<"q_R", "q_zeta", "q_Z", "K_R", "K_zeta_initial", "K_Z", "b_hat", "y_hat",
      "x_hat", "tau", "g_hat", "Psi_3D", "grad_bhat", "g_magnitude",
      "dH_dKzeta", "poloidal_flux", "epsilon_para", "epsilon_perp",
      "epsilon_g", "electron_density">>

\* lines 598-665: some of the variables of further_df
further_df ==
    {"x_hat_Cartesian", "y_hat_Cartesian", "g_hat_Cartesian",
     "Psi_3D_Cartesian", "theta", "theta_m", "K_magnitude", "cutoff_index",
     "loc_b", "loc_p", "loc_r", "loc_s", "loc_m", "loc_b_r_s", "loc_b_r"}

\* lines 271-279
to_Cartesian(array, cos_q_zeta, sin_q_zeta) ==
    (0 :> QAdd(QMul(array[0], cos_q_zeta), QNeg(QMul(array[1], sin_q_zeta))))
    @@ (1 :> QAdd(QMul(array[0], cos_q_zeta), QMul(array[1], sin_q_zeta)))
    @@ (2 :> array[2])

\* lines 212-676: the reads in their order; reading a variable the dataset
\* does not have raises AttributeError, and the statements before it have
\* run
further_analysis(df) ==
    LET missing == {i \in 1..Len(further_reads) : further_reads[i] \notin df.names}
        first == CHOOSE i \in missing : \A j \in missing : i <= j
        reached(name) ==
            \A i \in missing : \E j \in 1..(i - 1) : further_reads[j] = name
        cos_q_zeta == np_cos(df.q_zeta)
        sin_q_zeta == np_sin(df.q_zeta)
        cart(array) == IF reached("g_hat")
                       THEN to_Cartesian(array, cos_q_zeta, sin_q_zeta)
                       ELSE NotComputed
    IN  [out |-> IF missing = {}
                 THEN Return(df.names \cup further_df \cup {"R_midplane", "l_lc"})
                 ELSE RaiseMsg("AttributeError", further_reads[first]),
         y_hat_Cartesian |-> cart(df.y_hat),
         x_hat_Cartesian |-> cart(df.x_hat),
         g_hat_Cartesian |-> cart(df.g_hat)]

\* inputs of the analysis
HatVectors == {QVec(1, 0, 0), QVec(0, 1, 0), QVec(1, 2, 3)}
Hats == [x_hat : HatVectors, y_hat : HatVectors, g_hat : HatVectors]

AnalysisArgs ==
    [vacuumLaunch_flag : BOOLEAN,
     find_temperature_1D : {"None", "profile"},
     q_zeta : Angles]

DefaultAnalysisArgs ==
    [vacuumLaunch_flag |-> TRUE, find_temperature_1D |-> "None",
     q_zeta |-> Angle0]

NoDataset ==
    [names |-> {}, q_zeta |-> Angle0, x_hat |-> NoGradH, y_hat |-> NoGradH,
     g_hat |-> NoGradH]

NoAnalysis ==
    [out |-> Raise("not called"), y_hat_Cartesian |-> NotComputed,
     x_hat_Cartesian |-> NotComputed, g_hat_Cartesian |-> NotComputed]

\* ------------------------------------------------------------------- state
VARIABLES
    op,         \* the function of fun_evolution_3D that was called, or "none"
    arg_state,  \* the 18-slot state vector handed to unpack / the evaluator
    arg_tau,    \* the tau argument of the evaluator
    arg_shapes, \* the batch shapes of the arguments handed to pack
    provider,   \* what hamiltonian.derivatives did during the call
    ret,        \* the outcome of the call
    lb_fn,      \* the function of launch.py the caller invokes
    lb_pc,      \* "ready" before the call, "done" after it
    lb_args,    \* the flags handed to launch_beam
    lb_field,   \* the field provider's flux values along the ray
    lb_ret,     \* the outcome of the call
    lv_pc,      \* "ready" before launch_beam computes its arrays, "done" after
    lv_args,    \* the numeric arguments of launch_beam
    lv_env,     \* what the provider and find_entry_point returned
    lv_ret,     \* the arrays launch_beam computed
    sl_pc,      \* "ready" before find_entry_point bounds its search, "done" after
    sl_args,    \* the launch position and the field's (R, Z) grid
    sl_ret,     \* the lengths find_entry_point computed
    an_pc,      \* "ready", "immediate" after immediate_analysis, "further" after further_analysis
    an_args,    \* vacuumLaunch_flag, find_temperature_1D and the ray's q_zeta
    an_df,      \* the dataset immediate_analysis returned
    an_ret      \* the outcome of further_analysis

evol_vars == <<op, arg_state, arg_tau, arg_shapes, provider, ret>>
launch_vars == <<lb_fn, lb_pc, lb_args, lb_field, lb_ret>>
values_vars == <<lv_pc, lv_args, lv_env, lv_ret>>
search_vars == <<sl_pc, sl_args, sl_ret>>
analysis_vars == <<an_pc, an_args, an_df, an_ret>>
vars == <<op, arg_state, arg_tau, arg_shapes, provider, ret,
          lb_fn, lb_pc, lb_args, lb_field, lb_ret,
          lv_pc, lv_args, lv_env, lv_ret,
          sl_pc, sl_args, sl_ret,
          an_pc, an_args, an_df, an_ret>>

EvolIdle ==
    /\ op = "none"
    /\ arg_state = [i \in Slots |-> 0]
    /\ arg_tau = 0
    /\ arg_shapes = ScalarShapes
    /\ provider = NoProvider
    /\ ret = Raise("not called")

LaunchIdle ==
    /\ lb_fn = "none"
    /\ lb_pc = "ready"
    /\ lb_args = DefaultArgs
    /\ lb_field = [t \in Taus |-> 0]
    /\ lb_ret = Raise("not called")

ValuesIdle ==
    /\ lv_pc = "ready"
    /\ lv_args = DefaultValueArgs
    /\ lv_env = NoValueEnv
    /\ lv_ret = NotComputed

SearchIdle ==
    /\ sl_pc = "ready"
    /\ sl_args = DefaultSearchArgs
    /\ sl_ret = NoLengths

AnalysisIdle ==
    /\ an_pc = "ready"
    /\ an_args = DefaultAnalysisArgs
    /\ an_df = NoDataset
    /\ an_ret = NoAnalysis

EvolInit ==
    /\ op = "none"
    /\ arg_state \in VecSet
    /\ arg_tau = 0
    /\ arg_shapes = ScalarShapes
    /\ provider = NoProvider
    /\ ret = Raise("not called")
    /\ LaunchIdle
    /\ ValuesIdle
    /\ SearchIdle
    /\ AnalysisIdle

\* decode(encode(q, K, Psi)) on the parts laid out in arg_state
CallRoundTrip ==
    /\ op = "none"
    /\ op' = "roundtrip"
    /\ ret' = unpack_of_pack(PartsOf(arg_state))
    /\ UNCHANGED <<arg_state, arg_tau, arg_shapes, provider>>
    /\ UNCHANGED launch_vars
    /\ UNCHANGED values_vars
    /\ UNCHANGED search_vars
    /\ UNCHANGED analysis_vars

CallUnpack ==
    /\ op = "none"
    /\ op' = "unpack"
    /\ ret' = Return(unpack_beam_parameters_3D(arg_state))
    /\ UNCHANGED <<arg_state, arg_tau, arg_shapes, provider>>
    /\ UNCHANGED launch_vars
    /\ UNCHANGED values_vars
    /\ UNCHANGED search_vars
    /\ UNCHANGED analysis_vars

CallEvolution ==
    /\ op = "none"
    /\ \E tau \in 0..1 : \E dH \in ProviderOutputs :
        /\ op' = "evolve"
        /\ arg_tau' = tau
        /\ provider' = dH
        /\ ret' = beam_evolution_fun_3D(tau, arg_state, dH)
    /\ UNCHANGED <<arg_state, arg_shapes>>
    /\ UNCHANGED launch_vars
    /\ UNCHANGED values_vars
    /\ UNCHANGED search_vars
    /\ UNCHANGED analysis_vars

\* pack_beam_parameters_3D on parts of the batch shapes s: no statement of
\* lines 8-40 reads a shape, and the eighteen parts reach np.array as
\* positional arguments whatever their shapes are.
CallPack ==
    /\ op = "none"
    /\ \E s \in ShapeArgs :
        /\ op' = "pack"
        /\ arg_shapes' = s
        /\ LET p == PartsOf(arg_state)
           IN  ret' = pack_beam_parameters_3D(p.q_X, p.q_Y, p.q_Z,
                                              p.K_X, p.K_Y, p.K_Z, p.Psi)
    /\ UNCHANGED <<arg_state, arg_tau, provider>>
    /\ UNCHANGED launch_vars
    /\ UNCHANGED values_vars
    /\ UNCHANGED search_vars
    /\ UNCHANGED analysis_vars

EvolNext == CallRoundTrip \/ CallUnpack \/ CallEvolution \/ CallPack

SpecEvol == EvolInit /\ [][EvolNext]_vars

\* ------------------------------------------------------- calls of launch.py
LaunchInit ==
    /\ EvolIdle
    /\ ValuesIdle
    /\ SearchIdle
    /\ AnalysisIdle
    /\ lb_pc = "ready"
    /\ lb_ret = Raise("not called")
    /\ \/ /\ lb_fn = "find_entry_point"
          /\ lb_args = DefaultArgs
          /\ lb_field \in Fields
       \/ /\ lb_fn = "launch_beam"
          /\ lb_args \in LaunchArgs
          /\ lb_field \in LaunchFields

CallFindEntryPoint ==
    /\ lb_fn = "find_entry_point"
    /\ lb_pc = "ready"
    /\ \E env \in FindEntryEnvs(lb_field) :
        lb_ret' = find_entry_point(lb_field, env)
    /\ lb_pc' = "done"
    /\ UNCHANGED <<lb_fn, lb_args, lb_field>>
    /\ UNCHANGED evol_vars
    /\ UNCHANGED values_vars
    /\ UNCHANGED search_vars
    /\ UNCHANGED analysis_vars

CallLaunchBeam ==
    /\ lb_fn = "launch_beam"
    /\ lb_pc = "ready"
    /\ \E env \in LaunchBeamEnvs(lb_field) :
        lb_ret' = launch_beam(lb_args, lb_field, env)
    /\ lb_pc' = "done"
    /\ UNCHANGED <<lb_fn, lb_args, lb_field>>
    /\ UNCHANGED evol_vars
    /\ UNCHANGED values_vars
    /\ UNCHANGED search_vars
    /\ UNCHANGED analysis_vars

LaunchNext == CallFindEntryPoint \/ CallLaunchBeam

SpecLaunch == LaunchInit /\ [][LaunchNext]_vars

\* --------------------------------------- the arrays launch_beam computes
ValuesInit ==
    /\ EvolIdle
    /\ LaunchIdle
    /\ SearchIdle
    /\ AnalysisIdle
    /\ lv_pc = "ready"
    /\ lv_args \in ValueArgs
    /\ lv_env = NoValueEnv
    /\ lv_ret = NotComputed

CallLaunchBeamValues ==
    /\ lv_pc = "ready"
    /\ \E env \in ValueEnvs(lv_args) :
        /\ lv_env' = env
        /\ lv_ret' = launch_beam_values(lv_args, env.grad_H, env.entry_position)
    /\ lv_pc' = "done"
    /\ UNCHANGED lv_args
    /\ UNCHANGED evol_vars
    /\ UNCHANGED launch_vars
    /\ UNCHANGED search_vars
    /\ UNCHANGED analysis_vars

ValuesNext == CallLaunchBeamValues

SpecValues == ValuesInit /\ [][ValuesNext]_vars

\* ------------------------------- find_entry_point: the length of the search
SearchInit ==
    /\ EvolIdle
    /\ LaunchIdle
    /\ ValuesIdle
    /\ AnalysisIdle
    /\ sl_pc = "ready"
    /\ sl_args \in SearchArgs
    /\ sl_ret = NoLengths

CallSearchLength ==
    /\ sl_pc = "ready"
    /\ sl_ret' = search_lengths(sl_args.launch_position, sl_args.field)
    /\ sl_pc' = "done"
    /\ UNCHANGED sl_args
    /\ UNCHANGED evol_vars
    /\ UNCHANGED launch_vars
    /\ UNCHANGED values_vars
    /\ UNCHANGED analysis_vars

SearchNext == CallSearchLength

SpecSearch == SearchInit /\ [][SearchNext]_vars

\* ---------------------------------------------------- calls of analysis.py
AnalysisInit ==
    /\ EvolIdle
    /\ LaunchIdle
    /\ ValuesIdle
    /\ SearchIdle
    /\ an_pc = "ready"
    /\ an_args \in AnalysisArgs
    /\ an_df = NoDataset
    /\ an_ret = NoAnalysis

\* immediate_analysis; x_hat, y_hat and g_hat are what the field and
\* dispersion providers make them
CallImmediateAnalysis ==
    /\ an_pc = "ready"
    /\ \E hats \in Hats : an_df' = immediate_analysis(an_args, hats)
    /\ an_pc' = "immediate"
    /\ UNCHANGED <<an_args, an_ret>>
    /\ UNCHANGED evol_vars
    /\ UNCHANGED launch_vars
    /\ UNCHANGED values_vars
    /\ UNCHANGED search_vars

\* further_analysis on the dataset immediate_analysis returned
CallFurtherAnalysis ==
    /\ an_pc = "immediate"
    /\ an_ret' = further_analysis(an_df)
    /\ an_pc' = "further"
    /\ UNCHANGED <<an_args, an_df>>
    /\ UNCHANGED evol_vars
    /\ UNCHANGED launch_vars
    /\ UNCHANGED values_vars
    /\ UNCHANGED search_vars

AnalysisNext == CallImmediateAnalysis \/ CallFurtherAnalysis

SpecAnalysis == AnalysisInit /\ [][AnalysisNext]_vars

\* ------------------------------------------------------- claims on the codec
\* The Riccati right-hand side as the specification writes it.
RiccatiRHS(Psi, Hpp, Hkp, Hkk) ==
    MatSub(MatSub(MatSub(MatNeg(AsComplex(Hpp)),
                         np_matmul(Psi, AsComplex(Hkp))),
                  np_matmul(np_transpose(AsComplex(Hkp)), Psi)),
           np_matmul(np_matmul(Psi, AsComplex(Hkk)), Psi))

\* C1: decoding the encoding of a position, a wavevector and a symmetric Psi
\* gives back exactly that position, wavevector and Psi.
C1_RoundTrip ==
    op = "roundtrip" => (ret.ok /\ ret.val = PartsOf(arg_state))

\* C2: unpack returns an exactly symmetric Psi whose six upper-triangle
\* entries are the stored ones, v[6+k] + i*v[12+k], mirrored into the lower
\* triangle.
C2_UnpackMirrorsUpper ==
    op = "unpack" =>
        LET Psi == ret.val.Psi
            v == arg_state
        IN  /\ IsSymmetric(Psi)
            /\ Psi[0][0] = Cx(v[6], v[12])
            /\ Psi[1][1] = Cx(v[7], v[13])
            /\ Psi[2][2] = Cx(v[8], v[14])
            /\ Psi[0][1] = Cx(v[9], v[15])
            /\ Psi[0][2] = Cx(v[10], v[16])
            /\ Psi[1][2] = Cx(v[11], v[17])

\* C3: the Psi derivative encoded in the evaluator's result is
\* -Hpp - Psi*Hkp - Hpk*Psi - Psi*Hkk*Psi for the Psi encoded in the input
\* state vector and the provider's tensors.
C3_RiccatiEncoded ==
    (op = "evolve" /\ ~provider.raises) =>
        /\ ret.out.ok
        /\ PartsOf(ret.out.val).Psi =
               RiccatiRHS(PartsOf(arg_state).Psi,
                          provider.Hpp, provider.Hkp, provider.Hkk)

\* C4: the evaluator returns an 18-slot vector with +dH/dK in slots 0-2 and
\* -dH/dposition in slots 3-5.
C4_RayEquations ==
    (op = "evolve" /\ ~provider.raises) =>
        /\ ret.out.ok
        /\ DOMAIN ret.out.val = Slots
        /\ ret.out.val[0] = provider.dH_dKx
        /\ ret.out.val[1] = provider.dH_dKy
        /\ ret.out.val[2] = provider.dH_dKz
        /\ ret.out.val[3] = -provider.dH_dX
        /\ ret.out.val[4] = -provider.dH_dY
        /\ ret.out.val[5] = -provider.dH_dZ

\* The case of C5: the evaluator got tensors from the provider, Hpp and Hkk
\* symmetric, and the Psi it decoded is symmetric.
C5_Case ==
    /\ op = "evolve"
    /\ ~provider.raises
    /\ IsSymmetric(provider.Hpp)
    /\ IsSymmetric(provider.Hkk)
    /\ IsSymmetric(ret.Psi)

\* C5: for a symmetric Psi and symmetric Hpp, Hkk (Hpk the transpose of Hkp)
\* the d_Psi_d_tau the evaluator computes is symmetric, and so is
\* Psi + h * d_Psi_d_tau for every step h.
C5_SymmetryPreserved ==
    C5_Case =>
        /\ IsSymmetric(ret.d_Psi_d_tau)
        /\ \A h \in 1..2 :
             IsSymmetric(MatAdd(ret.Psi, MatScale(h, ret.d_Psi_d_tau)))
        \* and the same computation on the symmetric Psi laid out in the
        \* input vector, whose xy entry need not be zero
        /\ LET H == hessians_3D(provider)
               Psi == PartsOf(arg_state).Psi
               dPsi == d_Psi_d_tau(Psi, H.grad_grad_H, H.gradK_grad_H,
                                   H.gradK_gradK_H)
           IN  /\ IsSymmetric(dPsi)
               /\ \A h \in 1..2 : IsSymmetric(MatAdd(Psi, MatScale(h, dPsi)))

C5_Witness ==
    /\ C5_Case
    /\ provider.Hkp = MatNonSym
    /\ provider.Hkk = MatSymFull
    /\ ret.Psi[0][2] # Cx(0, 0)
    /\ ret.Psi[1][1] # Cx(0, 0)
    /\ ret.d_Psi_d_tau[0][1] # Cx(0, 0)
    /\ IsSymmetric(ret.d_Psi_d_tau)

\* ------------------------------------------------------ claims on the launch
FindEntryDone == lb_pc = "done" /\ lb_fn = "find_entry_point"
LaunchBeamDone == lb_pc = "done" /\ lb_fn = "launch_beam"

\* The record r of a find_entry_point call reports a miss: a RuntimeError
\* with the closest point and the residual of minimize_scalar, and no
\* root refinement.
MissReported(r, field) ==
    /\ ~r.out.ok
    /\ r.out.exc = "RuntimeError"
    /\ r.out.val.text = "Beam does not hit plasma"
    /\ \E m \in MinimizeOutcomes(field) :
         /\ r.out.val.closest = beam_line(m.x)
         /\ r.out.val.distance = m.fun
    /\ Called(r.log, "minimize_scalar")
    /\ ~Called(r.log, "root_scalar")

C6_CaseLaunch ==
    /\ LaunchBeamDone
    /\ Called(lb_ret.log, "find_entry_point")
    /\ lb_ret.entry.locals.spline_roots = <<>>

\* C6: when the spline has no root, find_entry_point fails with an error that
\* reports the closest-approach point and the residual flux distance, without
\* running the root refinement; launch_beam propagates that failure, calls
\* find_entry_point once and returns no bundle.
C6_MissIsFatal ==
    /\ (FindEntryDone /\ lb_ret.locals.spline_roots = <<>>)
         => MissReported(lb_ret, lb_field)
    /\ C6_CaseLaunch =>
         /\ MissReported(lb_ret.entry, lb_field)
         /\ lb_ret.out = lb_ret.entry.out
         /\ Count(lb_ret.log, "find_entry_point") = 1
         /\ lb_ret.log[Len(lb_ret.log)] = "find_entry_point"

C6_Witness ==
    /\ C6_CaseLaunch
    /\ lb_ret.out.exc = "RuntimeError"
    /\ lb_ret.out.val.distance > 0
    /\ lb_args.Psi_BC_flag = "discontinuous"

C7_Case ==
    /\ FindEntryDone
    /\ lb_ret.locals.spline_roots # <<>>

\* The place of the first crossing of the target along the ray: the smallest
\* tau where the field is at the target or changes side before the next
\* grid position.
HasCrossing(field, t) ==
    LET f(u) == field[u] - poloidal_flux_enter
    IN  f(t) = 0 \/ (t + 1 \in Taus /\ f(t) * f(t + 1) < 0)

FirstCrossing(field) ==
    CHOOSE t \in Taus :
        /\ HasCrossing(field, t)
        /\ \A u \in Taus : HasCrossing(field, u) => t <= u

\* C7 as stated: with one or more spline roots, the one point returned is the
\* first crossing of the target along the ray (to within the solver's tolerance
\* and the nudge).  Stated for the runs in which the refinement converged
\* at its seed, the smallest spline root.
C7_ReturnsFirstCrossing ==
    (/\ C7_Case
     /\ lb_ret.out.ok
     /\ lb_ret.locals.root = lb_ret.locals.x0) =>
        /\ lb_ret.out.val - FirstCrossing(lb_field) <= 2
        /\ FirstCrossing(lb_field) - lb_ret.out.val <= 2

\* C7 as amended: with one or more spline roots, the refinement is run once,
\* seeded with the spline root of smallest ray parameter, and when it
\* converges exactly one point is returned: the refined root, moved forward by
\* boundary_adjust when the field there is above the target.
C7_SeedIsSmallestRoot ==
    C7_Case =>
        LET roots == lb_ret.locals.spline_roots
        IN  /\ Count(lb_ret.log, "root_scalar") = 1
            /\ \E i \in 1..Len(roots) : lb_ret.locals.x0 = roots[i]
            /\ \A i \in 1..Len(roots) : lb_ret.locals.x0 <= roots[i]
            /\ lb_ret.out.ok =>
                 /\ lb_ret.out.val \in Taus
                 /\ lb_ret.out.val \in
                      {lb_ret.locals.root, lb_ret.locals.root + boundary_adjust}
                 /\ (lb_ret.out.val # lb_ret.locals.root) <=>
                      (lb_field[lb_ret.locals.root] > poloidal_flux_enter)

C7_Witness ==
    /\ C7_Case
    /\ Len(lb_ret.locals.spline_roots) >= 2
    /\ lb_ret.out.ok
    /\ lb_ret.locals.x0 = lb_ret.locals.spline_roots[1]
    /\ lb_ret.out.val = lb_ret.locals.root + boundary_adjust

\* C8: the field at a point that find_entry_point returns is not above the
\* target.
C8_ReturnedPointNotOutside ==
    (FindEntryDone /\ lb_ret.out.ok) =>
        poloidal_flux_at(lb_field, lb_ret.out.val) <= poloidal_flux_enter

C9_Case ==
    /\ LaunchBeamDone
    /\ lb_args.Psi_BC_flag \notin
         {"True", "False", "None", "continuous", "discontinuous"}

\* C9: launch_beam with an unrecognised Psi_BC_flag raises an error that names
\* the value and the accepted values, before any other work (no call made, no
\* warning emitted).
C9_BadBCFlagRaisesFirst ==
    C9_Case =>
        /\ ~lb_ret.out.ok
        /\ lb_ret.out.exc = "ValueError"
        /\ lb_ret.out.val.value = lb_args.Psi_BC_flag
        /\ lb_ret.out.val.expected = <<"None", "continuous", "discontinuous">>
        /\ lb_ret.log = <<>>
        /\ lb_ret.warnings = <<>>

C9_Witness ==
    /\ C9_Case
    /\ lb_args.Psi_BC_flag = "bogus"
    /\ lb_args.flag_coordinate_system = "cartesian"
    /\ lb_args.vacuum_propagation_flag
    /\ lb_ret.out.exc = "ValueError"

\* C10: launch_beam with an unrecognised flag_coordinate_system (and a valid
\* Psi_BC_flag) fails with an error that names the value and the two accepted
\* values, before any numerical work.
C10_BadCoordinateSystemRaisesFirst ==
    (/\ LaunchBeamDone
     /\ ~Psi_BC_flag_invalid(lb_ret.Psi_BC_flag)
     /\ lb_args.flag_coordinate_system \notin {"cylindrical", "cartesian"}) =>
        /\ ~lb_ret.out.ok
        /\ lb_ret.out.val.value = lb_args.flag_coordinate_system
        /\ lb_ret.out.val.expected = <<"cylindrical", "cartesian">>
        /\ lb_ret.log = <<>>

\* The canonical value that lines 103-116 put in place of a legacy boolean.
C11_Canonical(Psi_BC_flag) ==
    IF Psi_BC_flag = "True" THEN "continuous"
    ELSE IF Psi_BC_flag = "False" THEN "None"
    ELSE Psi_BC_flag

C11_Case ==
    /\ LaunchBeamDone
    /\ lb_args.Psi_BC_flag \in {"True", "False"}

\* C11: a call of launch_beam with the legacy flag True (False) emits exactly
\* one DeprecationWarning, goes on with the flag 'continuous' (None) and ends
\* as the call with that canonical value ends under the same collaborators:
\* same bundle or exception, same calls; a call with a canonical value emits
\* no warning.
C11_LegacyFlagNormalised ==
    /\ C11_Case =>
         /\ lb_ret.warnings = <<"DeprecationWarning">>
         /\ lb_ret.Psi_BC_flag = C11_Canonical(lb_args.Psi_BC_flag)
         /\ \A env \in LaunchBeamEnvs(lb_field) :
              (lb_ret = launch_beam(lb_args, lb_field, env)) =>
                LET canonical ==
                        launch_beam([lb_args EXCEPT
                                       !.Psi_BC_flag = C11_Canonical(@)],
                                    lb_field, env)
                IN  /\ canonical.out = lb_ret.out
                    /\ canonical.log = lb_ret.log
                    /\ canonical.entry = lb_ret.entry
                    /\ canonical.warnings = <<>>
    /\ (/\ LaunchBeamDone
        /\ lb_args.Psi_BC_flag \in {"None", "continuous", "discontinuous"})
         => lb_ret.warnings = <<>>

C11_Witness ==
    /\ C11_Case
    /\ lb_args.Psi_BC_flag = "True"
    /\ lb_args.vacuum_propagation_flag
    /\ lb_ret.out.ok
    /\ lb_ret.out.val[4][1] = "apply_continuous_BC"
    /\ lb_ret.warnings = <<"DeprecationWarning">>

\* The values of an array term: np.array(...) and [...] copy them.
RECURSIVE ArrayValue(_)
ArrayValue(term) ==
    IF term # <<>> /\ term[1] \in {"np.array", "list"}
    THEN ArrayValue(Tail(term))
    ELSE term

C12_Case ==
    /\ LaunchBeamDone
    /\ lb_args.vacuum_propagation_flag
    /\ lb_ret.out.ok

C13_Case ==
    /\ LaunchBeamDone
    /\ ~lb_args.vacuum_propagation_flag

C14_EntryOutputsAreNaN ==
    (/\ LaunchBeamDone
     /\ ~lb_args.vacuum_propagation_flag
     /\ lb_ret.out.ok) =>
        /\ Len(lb_ret.out.val) = 8
        /\ lb_ret.out.val[6] = <<"np.full_like", "nan">>
        /\ lb_ret.out.val[7] = <<"np.full_like", "nan">>

C15_Case ==
    /\ op = "evolve"
    /\ provider.raises

\* C15: when hamiltonian.derivatives raises, the evaluator ends with that
\* same exception, returns no vector and has called the provider once, at
\* the point decoded from the state vector.
C15_ProviderFailurePropagates ==
    C15_Case =>
        /\ ~ret.out.ok
        /\ ret.out.exc = provider.exc
        /\ ret.out.val = <<>>
        /\ ret.stage = "provider_raised"
        /\ ret.provider_calls = << <<arg_state[0], arg_state[1], arg_state[2],
                                     arg_state[3], arg_state[4], arg_state[5]>> >>

C15_Witness ==
    /\ C15_Case
    /\ provider.exc = "ValueError"
    /\ ret.out.exc = "ValueError"
    /\ Len(ret.provider_calls) = 1
    /\ arg_state[3] # 0

\* The record r of a find_entry_point call reports a failed refinement: a
\* RuntimeError whose message holds root_scalar's flag, raised before
\* boundary_tau is assigned.
RefinementFailureReported(r) ==
    /\ ~r.out.ok
    /\ r.out.exc = "RuntimeError"
    /\ r.out.val.text = "Could not find plasma boundary"
    /\ r.out.val.flag = r.locals.boundary.flag
    /\ r.locals.root = -1
    /\ Count(r.log, "root_scalar") = 1

C17_Case ==
    /\ FindEntryDone
    /\ lb_ret.locals.spline_roots # <<>>
    /\ ~lb_ret.locals.boundary.converged

C17_CaseLaunch ==
    /\ LaunchBeamDone
    /\ Called(lb_ret.log, "find_entry_point")
    /\ lb_ret.entry.locals.spline_roots # <<>>
    /\ ~lb_ret.entry.locals.boundary.converged

\* C17: when the spline has roots and root_scalar reports no convergence,
\* find_entry_point returns no point: it raises an error holding the
\* solver's flag without nudging anything, and launch_beam ends with that
\* same error right after its call of find_entry_point.
C17_RefinementFailureIsFatal ==
    /\ C17_Case => RefinementFailureReported(lb_ret)
    /\ C17_CaseLaunch =>
         /\ RefinementFailureReported(lb_ret.entry)
         /\ lb_ret.out = lb_ret.entry.out
         /\ lb_ret.log[Len(lb_ret.log)] = "find_entry_point"

C17_Witness ==
    /\ C17_CaseLaunch
    /\ lb_ret.entry.locals.boundary.flag = "value error"
    /\ lb_ret.out.val.flag = "value error"
    /\ lb_ret.entry.locals.x0 >= 0

\* ------------------------------------------- claims on the computed arrays
ValuesDone == lv_pc = "done"

\* K0 * launch_beam_curvature + 2i / launch_beam_width^2
LaunchDiagonal ==
    Q(lv_args.wavenumber_K0 * lv_args.launch_beam_curvature
        * lv_args.launch_beam_width * lv_args.launch_beam_width,
      2, lv_args.launch_beam_width * lv_args.launch_beam_width)

UpperLeftIsDiagonal(Psi, diagonal) ==
    /\ Psi[0][0] = diagonal
    /\ Psi[1][1] = diagonal
    /\ Psi[0][1] = QZero
    /\ Psi[1][0] = QZero

ThirdRowColumnZero(Psi) ==
    \A i \in Idx : Psi[i][2] = QZero /\ Psi[2][i] = QZero

\* C18 as stated: in both coordinate modes the beam-aligned 3x3 launch matrix
\* has K0*curvature + 2i/width^2 at [0,0] and [1,1], zero at [0,1] and [1,0]
\* and a zero third row and third column.
C18_LaunchMatrixIsEmbedding ==
    ValuesDone =>
        /\ UpperLeftIsDiagonal(lv_ret.launch.Psi_3D_beam_launch_cartersian,
                               LaunchDiagonal)
        /\ ThirdRowColumnZero(lv_ret.launch.Psi_3D_beam_launch_cartersian)

\* C18 as amended: in both modes the upper-left 2x2 block of the beam-aligned
\* launch matrix is the diagonal matrix of K0*curvature + 2i/width^2; in the
\* cylindrical mode the third row and column are zero, in the cartesian mode
\* they hold the gradient (dH_dX, dH_dY, dH_dZ) that hamiltonian.derivatives
\* returns at the launch point.
C18_LaunchMatrixByMode ==
    ValuesDone =>
        LET Psi == lv_ret.launch.Psi_3D_beam_launch_cartersian
        IN  /\ UpperLeftIsDiagonal(Psi, LaunchDiagonal)
            /\ (lv_args.flag_coordinate_system = "cylindrical")
                 => ThirdRowColumnZero(Psi)
            /\ (lv_args.flag_coordinate_system = "cartesian")
                 => \A i \in Idx : /\ Psi[i][2] = lv_env.grad_H[i]
                                   /\ Psi[2][i] = lv_env.grad_H[i]

C18_Witness ==
    /\ ValuesDone
    /\ lv_args.flag_coordinate_system = "cartesian"
    /\ lv_args.launch_beam_width = 2
    /\ lv_args.launch_beam_curvature = -1
    /\ lv_env.grad_H[0] # QZero
    /\ lv_ret.launch.Psi_3D_beam_launch_cartersian[2][2] = lv_env.grad_H[2]
    /\ lv_ret.launch.Psi_3D_beam_launch_cartersian[0][0].den = 2

C19_Case ==
    /\ ValuesDone
    /\ lv_args.vacuum_propagation_flag

UpperLeft(array_3x3) ==
    [i \in 0..1 |-> [j \in 0..1 |-> array_3x3[i][j]]]

C20_RotationIsOrthogonal ==
    ValuesDone =>
        LET R == lv_ret.launch.rotation_matrix
            R_inverse == lv_ret.launch.rotation_matrix_inverse
        IN  /\ QMatMul(QTranspose(R), R) = np_eye(3)
            /\ QMatMul(R, QTranspose(R)) = np_eye(3)
            /\ QMatMul(R_inverse, R) = np_eye(3)
            /\ QMatMul(R, R_inverse) = np_eye(3)
            /\ IsSymmetric(lv_ret.launch.Psi_3D_beam_launch_cartersian)
                 => IsSymmetric(lv_ret.launch.Psi_3D_lab_launch_cartersian)
            /\ (/\ lv_args.vacuum_propagation_flag
                /\ IsSymmetric(lv_ret.entry.Psi_3D_beam_entry_cartersian))
                 => IsSymmetric(lv_ret.entry.Psi_3D_lab_entry_cartersian)

C20_Witness ==
    /\ ValuesDone
    /\ lv_args.toroidal_launch_angle.cos = Q(-4, 0, 5)
    /\ lv_args.poloidal_launch_angle.sin = Q(4, 0, 5)
    /\ lv_args.flag_coordinate_system = "cartesian"
    /\ lv_env.grad_H[1] # QZero
    /\ IsSymmetric(lv_ret.launch.Psi_3D_beam_launch_cartersian)
    /\ lv_ret.launch.Psi_3D_lab_launch_cartersian[0][1] # QZero
    /\ lv_ret.launch.rotation_matrix[0][1].den = 25

\* ---------------------------------------------------------------- C21..C29
CartesianVacuumReturn ==
    /\ LaunchBeamDone
    /\ lb_args.flag_coordinate_system = "cartesian"
    /\ lb_args.vacuum_propagation_flag
    /\ lb_ret.out.ok

\* C21: in 'cartesian' mode with vacuum propagation the returned bundle is
\* Cartesian throughout: the launch Psi is the launch-Cartesian Psi, the
\* entry-frame Psi is the entry-frame-Cartesian Psi, and neither the initial
\* wavevector nor a Psi of the bundle has gone through a cylindrical
\* conversion (find_K_lab, find_Psi_3D_lab).
C21_CartesianModeIsConsistent ==
    CartesianVacuumReturn =>
        LET bundle == lb_ret.out.val
        IN  /\ bundle[5] = Psi_3D_lab_launch_cartersian("cartesian")
            /\ bundle[6] = bundle[7]
            /\ ~Called(bundle[6], "find_Psi_3D_lab")
            /\ ~Called(bundle[4], "find_Psi_3D_lab")
            /\ ~Called(bundle[1], "find_K_lab")
            /\ ~Called(lb_ret.log, "find_Psi_3D_lab")

ShapesMatch == arg_shapes.q = arg_shapes.K /\ arg_shapes.K = arg_shapes.Psi

\* C22: pack called with position, wavevector and Psi of different batch
\* shapes raises a shape error (numpy's ValueError), and called with equal
\* batch shapes it returns a vector of 18 slots.
C22_PackChecksShapes ==
    op = "pack" =>
        IF ShapesMatch
        THEN ret.ok /\ DOMAIN ret.val = Slots
        ELSE ~ret.ok /\ ret.exc = "ValueError"

\* C23: vacuumLaunch_flag selects where the beam starts, as the docstring of
\* launch_beam says: a call with vacuumLaunch_flag False treats the launch
\* position as inside the plasma, so it makes no plasma-entry search and
\* its initial position is the launch position; a call with True and vacuum
\* propagation searches the entry point.
C23_VacuumLaunchFlagHonoured ==
    LaunchBeamDone =>
        /\ ~lb_args.vacuumLaunch_flag =>
              /\ ~Called(lb_ret.log, "find_entry_point")
              /\ lb_ret.out.ok => lb_ret.out.val[2] = <<"launch_position">>
        /\ (/\ lb_args.vacuumLaunch_flag
            /\ lb_args.vacuum_propagation_flag
            /\ lb_ret.out.ok) => Called(lb_ret.log, "find_entry_point")

\* The points of the field's (R, Z) domain on the X and Y axes of the torus:
\* (R cos(zeta), R sin(zeta), Z) at zeta = 0, 90, 180 and 270 degrees.
DomainPoints(field) ==
    { <<s * R, 0, Z>> : s \in {-1, 1}, R \in field.R_coord, Z \in field.Z_coord }
    \cup
    { <<0, s * R, Z>> : s \in {-1, 1}, R \in field.R_coord, Z \in field.Z_coord }

CartesianDistanceSquared(p, q) ==
    (p[1] - q[1]) * (p[1] - q[1]) + (p[2] - q[2]) * (p[2] - q[2])
        + (p[3] - q[3]) * (p[3] - q[3])

\* C24: max_length is at least the distance from the launch point to every
\* point of the field's (R, Z) domain, whatever the launch position and the
\* grid are.
C24_SearchLengthCoversDomain ==
    sl_pc = "done" =>
        \A p \in DomainPoints(sl_args.field) :
            CartesianDistanceSquared(sl_args.launch_position, p)
                <= sl_ret.max_length_squared

AcceptedFlags == {"True", "False", "None", "continuous", "discontinuous"}

C26_Case ==
    /\ LaunchBeamDone
    /\ ~lb_args.vacuum_propagation_flag

C27_Case ==
    /\ FindEntryDone
    /\ lb_ret.locals.spline_roots # <<>>
    /\ lb_field[beam_line(0)] > poloidal_flux_enter

C28_ReadsWereWritten ==
    /\ an_pc # "ready" =>
          \A i \in 1..Len(further_reads) : further_reads[i] \in an_df.names
    /\ an_pc = "further" => an_ret.out.ok

\* The rotation of the (R, zeta) components of a by the toroidal angle.
RotatedByZeta(a, zeta) ==
    (0 :> QAdd(QMul(a[0], zeta.cos), QNeg(QMul(a[1], zeta.sin))))
    @@ (1 :> QAdd(QMul(a[0], zeta.sin), QMul(a[1], zeta.cos)))
    @@ (2 :> a[2])

\* C29: to_Cartesian rotates the (R, zeta) components of x_hat, y_hat and
\* g_hat by q_zeta: X = a_R cos(zeta) - a_zeta sin(zeta),
\* Y = a_R sin(zeta) + a_zeta cos(zeta), Z = a_Z; for q_zeta = 0 the
\* components come back unchanged.
C29_ToCartesianRotates ==
    (an_pc = "further" /\ an_ret.out.ok) =>
        /\ an_ret.x_hat_Cartesian = RotatedByZeta(an_df.x_hat, an_df.q_zeta)
        /\ an_ret.y_hat_Cartesian = RotatedByZeta(an_df.y_hat, an_df.q_zeta)
        /\ an_ret.g_hat_Cartesian = RotatedByZeta(an_df.g_hat, an_df.q_zeta)
        /\ an_df.q_zeta = Angle0 =>
              /\ an_ret.x_hat_Cartesian = an_df.x_hat
              /\ an_ret.y_hat_Cartesian = an_df.y_hat
              /\ an_ret.g_hat_Cartesian = an_df.g_hat

====
